---- MODULE Spec2Model ----
(***************************************************************************)
(* The reactor core's per-tick pipeline of src/simulation/computation.rs:  *)
(* six systems registered on the RunSimulation schedule, each a loop over  *)
(* the cells or the edges of the grid.                                     *)
(*                                                                         *)
(* Numbers.  The components are floats.  A value is modelled as an exact   *)
(* fraction <<n, d>> in lowest terms with d >= 0; d = 0 holds the three    *)
(* values a float division can add to the finite ones: <<1, 0>> is +inf,   *)
(* <<-1, 0>> is -inf and <<0, 0>> is NaN.  Rounding and the sign of zero   *)
(* are not modelled.  The fractions are bounded: a result whose numerator  *)
(* or denominator exceeds MaxNum is OutOfRange, and a step that would      *)
(* store such a value is not taken (the run is followed no further).       *)
(***************************************************************************)
EXTENDS Integers, Sequences, FiniteSets, TLC

\* Number of ticks a run of the model advances.
MaxTicks == 2

\* Largest numerator and denominator of a fraction of the model.
MaxNum == 1000000000

----------------------------------------------------------------------------
(* Float arithmetic on fractions *)

Abs(n) == IF n < 0 THEN -n ELSE n

Sign(n) == IF n > 0 THEN 1 ELSE IF n < 0 THEN -1 ELSE 0

RECURSIVE GCD(_, _)
GCD(a, b) == IF b = 0 THEN a ELSE GCD(b, a % b)

\* Whether the product x * y is within the range of the model.
Fits(x, y) == x = 0 \/ y = 0 \/ Abs(x) <= MaxNum \div Abs(y)

OutOfRange == <<0, -1>>

\* A fraction, or OutOfRange when it is beyond the bounds of the model.
Bounded(v) == IF Abs(v[1]) > MaxNum \/ v[2] > MaxNum THEN OutOfRange ELSE v

\* n / d in lowest terms, g being the greatest common divisor and d > 0.
Reduced(n, d, g) == <<n \div g, d \div g>>

Norm(n, d) ==
    IF d = 0 THEN <<Sign(n), 0>>
    ELSE Bounded(Reduced(Sign(d) * n, Abs(d), GCD(Abs(n), Abs(d))))

Q(n, d) == Norm(n, d)
R(n) == <<n, 1>>
NaN == <<0, 0>>
Inf == <<1, 0>>

IsNaN(a) == a = NaN
IsInf(a) == a[2] = 0 /\ a[1] # 0
IsFinite(a) == a[2] > 0

FNeg(a) == IF a = OutOfRange THEN a ELSE <<-a[1], a[2]>>

\* a + b for finite a and b: a[1] * x + b[1] * y over the least common
\* denominator y * b[2].
FAddScaled(a, b, x, y) ==
    IF Fits(a[1], x) /\ Fits(b[1], y) /\ Fits(y, b[2])
    THEN Norm(a[1] * x + b[1] * y, y * b[2])
    ELSE OutOfRange

FAddFinite(a, b, g) == FAddScaled(a, b, b[2] \div g, a[2] \div g)

FAdd(a, b) ==
    IF a = OutOfRange \/ b = OutOfRange THEN OutOfRange
    ELSE IF IsNaN(a) \/ IsNaN(b) THEN NaN
    ELSE IF IsInf(a) THEN (IF IsInf(b) /\ b # a THEN NaN ELSE a)
    ELSE IF IsInf(b) THEN b
    ELSE FAddFinite(a, b, GCD(a[2], b[2]))

FSub(a, b) == FAdd(a, FNeg(b))

NonZero(g) == IF g = 0 THEN 1 ELSE g

FMulTerms(n1, n2, d1, d2) ==
    IF Fits(n1, n2) /\ Fits(d1, d2) THEN Norm(n1 * n2, d1 * d2) ELSE OutOfRange

FMulReduced(a, b, h1, h2) ==
    FMulTerms(a[1] \div h1, b[1] \div h2, a[2] \div h2, b[2] \div h1)

\* The factors are reduced crosswise first, so that the product is computed
\* in lowest terms.
FMul(a, b) ==
    IF a = OutOfRange \/ b = OutOfRange THEN OutOfRange
    ELSE FMulReduced(a, b, NonZero(GCD(Abs(a[1]), b[2])), NonZero(GCD(Abs(b[1]), a[2])))

\* 1 / a: a zero gives +inf (the sign of zero is not modelled), an infinity 0.
FInv(a) ==
    IF a = OutOfRange THEN OutOfRange
    ELSE IF IsNaN(a) THEN NaN
    ELSE IF a[1] = 0 THEN Inf
    ELSE IF a[1] > 0 THEN <<a[2], a[1]>>
    ELSE <<-a[2], -a[1]>>

FDiv(a, b) == FMul(a, FInv(b))

\* n1 / d1 < n2 / d2 for d1, d2 > 0, by the integer parts and then the
\* remainders (no product is formed).
RECURSIVE LessFrac(_, _, _, _)
LessFrac(n1, d1, n2, d2) ==
    LET q1 == n1 \div d1
        q2 == n2 \div d2
        r1 == n1 % d1
        r2 == n2 % d2
    IN  IF q1 # q2 THEN q1 < q2
        ELSE IF r2 = 0 THEN FALSE
        ELSE IF r1 = 0 THEN TRUE
        ELSE LessFrac(d2, r2, d1, r1)

\* a < b; false when either is NaN.
FLt(a, b) ==
    /\ a # OutOfRange
    /\ b # OutOfRange
    /\ ~IsNaN(a)
    /\ ~IsNaN(b)
    /\ IF a[2] = 0 \/ b[2] = 0
       THEN (IF a[2] = 0 /\ b[2] = 0 THEN a[1] < b[1]
             ELSE IF a[2] = 0 THEN a[1] < 0 ELSE b[1] > 0)
       ELSE LessFrac(a[1], a[2], b[1], b[2])

FGt(a, b) == FLt(b, a)
FLe(a, b) == a # OutOfRange /\ b # OutOfRange /\ ~IsNaN(a) /\ ~IsNaN(b) /\ ~FLt(b, a)
FGe(a, b) == FLe(b, a)

\* f32::min and f32::max: a NaN operand is ignored.
FMin(a, b) ==
    IF a = OutOfRange \/ b = OutOfRange THEN OutOfRange
    ELSE IF IsNaN(a) THEN b ELSE IF IsNaN(b) THEN a ELSE IF FLt(b, a) THEN b ELSE a
FMax(a, b) ==
    IF a = OutOfRange \/ b = OutOfRange THEN OutOfRange
    ELSE IF IsNaN(a) THEN b ELSE IF IsNaN(b) THEN a ELSE IF FLt(a, b) THEN b ELSE a

\* powf for an exponent that is a natural number: x^0 = 1 for every x.
RECURSIVE FPowf(_, _)
FPowf(a, k) ==
    IF a = OutOfRange THEN OutOfRange
    ELSE IF k = 0 THEN R(1) ELSE FMul(a, FPowf(a, k - 1))

Zero == R(0)
One == R(1)

----------------------------------------------------------------------------
(* SimulationConfig: the host's tunable constants, read by every system.   *)
(* pressure_curve_exponent is kept a natural number (see FPowf).           *)

ConfigNominal ==
    [base_reactivity |-> R(1), void_reactivity_boost |-> Q(1, 2),
     reactivity_neighbor_coupling_factor |-> R(1),
     heat_generation_factor |-> R(8), coolant_temperature |-> R(25),
     coolant_efficiency |-> Q(4, 25), temperature_passive_decay_rate |-> Q(8, 25),
     energy_per_heat_unit |-> R(1), energy_required_per_unit |-> R(100),
     steam_expansion_ratio |-> R(1), pressure_curve_exponent |-> 1,
     nominal_pressure |-> R(1), pressure_scale |-> Q(1, 100),
     steam_pull_factor |-> Q(1, 2)]

\* A quadratic pressure curve, no heat exchange, and energy constants that
\* boil off whatever coolant a cell above its boiling point holds.
ConfigCurved ==
    [base_reactivity |-> R(2), void_reactivity_boost |-> R(1),
     reactivity_neighbor_coupling_factor |-> Q(1, 2),
     heat_generation_factor |-> R(0), coolant_temperature |-> R(25),
     coolant_efficiency |-> R(0), temperature_passive_decay_rate |-> R(0),
     energy_per_heat_unit |-> R(1), energy_required_per_unit |-> R(1),
     steam_expansion_ratio |-> Q(1, 10), pressure_curve_exponent |-> 2,
     nominal_pressure |-> R(2), pressure_scale |-> R(1),
     steam_pull_factor |-> R(1)]

\* Every constant at 0 but the energy per heat unit: the divisions by
\* energy_required_per_unit and by nominal_pressure are divisions by zero.
ConfigZero ==
    [base_reactivity |-> R(0), void_reactivity_boost |-> R(0),
     reactivity_neighbor_coupling_factor |-> R(0),
     heat_generation_factor |-> R(0), coolant_temperature |-> R(0),
     coolant_efficiency |-> R(0), temperature_passive_decay_rate |-> R(0),
     energy_per_heat_unit |-> R(1), energy_required_per_unit |-> R(0),
     steam_expansion_ratio |-> R(0), pressure_curve_exponent |-> 0,
     nominal_pressure |-> R(0), pressure_scale |-> R(0),
     steam_pull_factor |-> R(0)]

Configs == {ConfigNominal, ConfigCurved, ConfigZero}

----------------------------------------------------------------------------
(* Position, ReactorCell, ReactorEdge, ChildOf and ReactorCore.            *)
(* A topology names the entities the host has spawned: each cell's         *)
(* position, each edge's two node positions, each entity's ChildOf         *)
(* ("core": the core; "stale": an entity that is not a core; "none": no    *)
(* ChildOf component) and the core's index cells_by_pos.                   *)

\* Position::neighbours
neighbours(p) ==
    <<  <<p[1] + 1, p[2]>>, <<p[1] - 1, p[2]>>, <<p[1], p[2] + 1>>, <<p[1], p[2] - 1>> >>

TopoSingle ==
    [cells |-> {"a"}, edges |-> {},
     position |-> [c \in {"a"} |-> <<0, 0>>],
     nodes |-> <<>>,
     child_of |-> [x \in {"a"} |-> "core"],
     cells_by_pos |-> [p \in {<<0, 0>>} |-> "a"]]

\* Two cells and the edge between them, its nodes stored second cell first.
TopoPair ==
    [cells |-> {"a", "b"}, edges |-> {"e1"},
     position |-> [c \in {"a", "b"} |-> IF c = "a" THEN <<0, 0>> ELSE <<1, 0>>],
     nodes |-> [e \in {"e1"} |-> << <<1, 0>>, <<0, 0>> >>],
     child_of |-> [x \in {"a", "b", "e1"} |-> "core"],
     cells_by_pos |-> [p \in {<<0, 0>>, <<1, 0>>} |-> IF p = <<0, 0>> THEN "a" ELSE "b"]]

\* Three cells in a row: a - b - c.
TopoLine ==
    [cells |-> {"a", "b", "c"}, edges |-> {"e1", "e2"},
     position |-> [c \in {"a", "b", "c"} |->
                     IF c = "a" THEN <<0, 0>> ELSE IF c = "b" THEN <<1, 0>> ELSE <<2, 0>>],
     nodes |-> [e \in {"e1", "e2"} |->
                     IF e = "e1" THEN << <<0, 0>>, <<1, 0>> >> ELSE << <<2, 0>>, <<1, 0>> >>],
     child_of |-> [x \in {"a", "b", "c", "e1", "e2"} |-> "core"],
     cells_by_pos |-> [p \in {<<0, 0>>, <<1, 0>>, <<2, 0>>} |->
                     IF p = <<0, 0>> THEN "a" ELSE IF p = <<1, 0>> THEN "b" ELSE "c"]]

\* The edge e2 names the position (2, 0), which the index does not hold.
TopoDangling ==
    [cells |-> {"a", "b"}, edges |-> {"e1", "e2"},
     position |-> [c \in {"a", "b"} |-> IF c = "a" THEN <<0, 0>> ELSE <<1, 0>>],
     nodes |-> [e \in {"e1", "e2"} |->
                     IF e = "e1" THEN << <<0, 0>>, <<1, 0>> >> ELSE << <<1, 0>>, <<2, 0>> >>],
     child_of |-> [x \in {"a", "b", "e1", "e2"} |-> "core"],
     cells_by_pos |-> [p \in {<<0, 0>>, <<1, 0>>} |-> IF p = <<0, 0>> THEN "a" ELSE "b"]]

\* The edge e2 is the child of an entity that is not a core (and names the
\* position (1, 0), which the index does not hold).
TopoOrphanEdge ==
    [cells |-> {"a", "b"}, edges |-> {"e1", "e2"},
     position |-> [c \in {"a", "b"} |-> IF c = "a" THEN <<0, 0>> ELSE <<0, 1>>],
     nodes |-> [e \in {"e1", "e2"} |->
                     IF e = "e1" THEN << <<0, 0>>, <<0, 1>> >> ELSE << <<0, 0>>, <<1, 0>> >>],
     child_of |-> [x \in {"a", "b", "e1", "e2"} |-> IF x = "e2" THEN "stale" ELSE "core"],
     cells_by_pos |-> [p \in {<<0, 0>>, <<0, 1>>} |-> IF p = <<0, 0>> THEN "a" ELSE "b"]]

\* The cell b is the child of an entity that is not a core.
TopoOrphanCell ==
    [cells |-> {"a", "b"}, edges |-> {"e1"},
     position |-> [c \in {"a", "b"} |-> IF c = "a" THEN <<0, 0>> ELSE <<1, 0>>],
     nodes |-> [e \in {"e1"} |-> << <<0, 0>>, <<1, 0>> >>],
     child_of |-> [x \in {"a", "b", "e1"} |-> IF x = "b" THEN "stale" ELSE "core"],
     cells_by_pos |-> [p \in {<<0, 0>>, <<1, 0>>} |-> IF p = <<0, 0>> THEN "a" ELSE "b"]]

\* The cell b has no ChildOf component at all.
TopoDetached ==
    [cells |-> {"a", "b"}, edges |-> {"e1"},
     position |-> [c \in {"a", "b"} |-> IF c = "a" THEN <<0, 0>> ELSE <<1, 0>>],
     nodes |-> [e \in {"e1"} |-> << <<0, 0>>, <<1, 0>> >>],
     child_of |-> [x \in {"a", "b", "e1"} |-> IF x = "b" THEN "none" ELSE "core"],
     cells_by_pos |-> [p \in {<<0, 0>>, <<1, 0>>} |-> IF p = <<0, 0>> THEN "a" ELSE "b"]]

\* The index holds, at (1, 0), an entity that is no longer a cell.
TopoGhost ==
    [cells |-> {"a"}, edges |-> {"e1"},
     position |-> [c \in {"a"} |-> <<0, 0>>],
     nodes |-> [e \in {"e1"} |-> << <<0, 0>>, <<1, 0>> >>],
     child_of |-> [x \in {"a", "e1"} |-> "core"],
     cells_by_pos |-> [p \in {<<0, 0>>, <<1, 0>>} |-> IF p = <<0, 0>> THEN "a" ELSE "ghost"]]

\* The app of test_generates_steam: one cell at (0, 0), no core, no ChildOf.
TopoTest ==
    [cells |-> {"a"}, edges |-> {},
     position |-> [c \in {"a"} |-> <<0, 0>>],
     nodes |-> <<>>,
     child_of |-> [x \in {"a"} |-> "none"],
     cells_by_pos |-> <<>>]

\* The grids a run of the simulation starts from, by name.
GridTopologies ==
    {"pair", "line", "dangling", "orphan_edge", "orphan_cell", "detached", "ghost"}

Topology(name) ==
    CASE name = "single" -> TopoSingle
      [] name = "pair" -> TopoPair
      [] name = "line" -> TopoLine
      [] name = "dangling" -> TopoDangling
      [] name = "orphan_edge" -> TopoOrphanEdge
      [] name = "orphan_cell" -> TopoOrphanCell
      [] name = "detached" -> TopoDetached
      [] name = "ghost" -> TopoGhost
      [] name = "test" -> TopoTest

\* ReactorCore::find_edge: the edge whose two nodes are a and b, in either
\* order; "None" when there is none.
find_edge(t, a, b) ==
    LET found == {e \in t.edges : {t.nodes[e][1], t.nodes[e][2]} = {a, b}}
    IN  IF found = {} THEN "None" ELSE CHOOSE e \in found : TRUE

\* cells_by_pos.get(pos)
cells_by_pos_get(t, p) ==
    IF p \in DOMAIN t.cells_by_pos THEN t.cells_by_pos[p] ELSE "None"

----------------------------------------------------------------------------
(* The systems.  Each is a loop over the entities its query matches; the   *)
(* operators below are one pass of the loop body on one entity, applied to *)
(* a grid g = [cells |-> ..., edges |-> ...] of topology t.                *)

\* update_local_reactivity, loop body
LocalReactivityOf(cfg, cell) ==
    LET rod_factor == FSub(One, cell.control_rod)
        coolant_factor ==
            FAdd(One, FMul(cfg.void_reactivity_boost, FSub(One, cell.coolant_level)))
    IN  FMul(FMul(cfg.base_reactivity, rod_factor), coolant_factor)

\* cores.get(child_of.0): whether the entity's parent is a core.
ResolvesCore(t, x) == t.child_of[x] = "core"

\* An edge loop that would return an error for a missing endpoint.
EdgeOutcomeStrict(t, e) ==
    IF t.child_of[e] # "core" THEN "err"
    ELSE IF cells_by_pos_get(t, t.nodes[e][1]) \in t.cells
            /\ cells_by_pos_get(t, t.nodes[e][2]) \in t.cells THEN "update"
    ELSE "err"

\* update_edge_reactivity and update_edge_temperatures, from the head of the
\* loop body to the two cells.get: "err" (a ? returns the error), "skip" (a
\* warn! and continue) or "update".
EdgeOutcome(t, e) ==
    LET first == cells_by_pos_get(t, t.nodes[e][1])
        second == cells_by_pos_get(t, t.nodes[e][2])
    IN  IF ~ResolvesCore(t, e) THEN "err"
        ELSE IF first = "None" THEN "skip"
        ELSE IF second = "None" THEN "skip"
        ELSE IF first \notin t.cells \/ second \notin t.cells THEN "err"
        ELSE "update"

\* An edge reactivity that keeps half of the value the edge held.
EdgeReactivityBlended(t, g, e) ==
    FDiv(FAdd(g.edges[e].reactivity,
              FDiv(FAdd(g.cells[cells_by_pos_get(t, t.nodes[e][1])].local_reactivity,
                        g.cells[cells_by_pos_get(t, t.nodes[e][2])].local_reactivity),
                   R(2))),
         R(2))

\* An edge reactivity that would take the first endpoint's alone.
EdgeReactivityOfFirst(t, g, e) ==
    g.cells[cells_by_pos_get(t, t.nodes[e][1])].local_reactivity

\* update_edge_reactivity, the value assigned
EdgeReactivityOf(t, g, e) ==
    LET first == cells_by_pos_get(t, t.nodes[e][1])
        second == cells_by_pos_get(t, t.nodes[e][2])
    IN  FDiv(FAdd(g.cells[first].local_reactivity, g.cells[second].local_reactivity), R(2))

\* An edge temperature that would read what update_edge_reactivity writes.
EdgeTemperatureWithReactivity(t, g, e) ==
    FAdd(FDiv(FAdd(g.cells[cells_by_pos_get(t, t.nodes[e][1])].temperature,
                   g.cells[cells_by_pos_get(t, t.nodes[e][2])].temperature), R(2)),
         g.edges[e].reactivity)

\* update_edge_temperatures, the value assigned
EdgeTemperatureOf(t, g, e) ==
    LET first == cells_by_pos_get(t, t.nodes[e][1])
        second == cells_by_pos_get(t, t.nodes[e][2])
    IN  FDiv(FAdd(g.cells[first].temperature, g.cells[second].temperature), R(2))

\* update_total_reactivity: one neighbour's term of neighbor_sum
NeighborReactivity(t, g, c, pos) ==
    LET edge == find_edge(t, t.position[c], pos)
    IN  IF edge = "None" THEN Zero ELSE g.edges[edge].reactivity

\* A total reactivity that builds on the reactivity the cell held, in place
\* of its local_reactivity.
TotalReactivityOnPrevious(cfg, t, g, c) ==
    FAdd(g.cells[c].reactivity,
         FMul(FAdd(FAdd(FAdd(NeighborReactivity(t, g, c, neighbours(t.position[c])[1]),
                             NeighborReactivity(t, g, c, neighbours(t.position[c])[2])),
                        NeighborReactivity(t, g, c, neighbours(t.position[c])[3])),
                   NeighborReactivity(t, g, c, neighbours(t.position[c])[4])),
              cfg.reactivity_neighbor_coupling_factor))

\* update_total_reactivity, the value assigned
TotalReactivityOf(cfg, t, g, c) ==
    LET ns == neighbours(t.position[c])
        neighbor_sum ==
            FAdd(FAdd(FAdd(FAdd(Zero, NeighborReactivity(t, g, c, ns[1])),
                           NeighborReactivity(t, g, c, ns[2])),
                      NeighborReactivity(t, g, c, ns[3])),
                 NeighborReactivity(t, g, c, ns[4]))
        neighbor_boost == FMul(neighbor_sum, cfg.reactivity_neighbor_coupling_factor)
    IN  FAdd(g.cells[c].local_reactivity, neighbor_boost)

\* A neighbour term without the 25.0 of a missing edge.
NeighborTemperatureNoFallback(t, g, c, pos) ==
    IF find_edge(t, t.position[c], pos) = "None" THEN Zero
    ELSE g.edges[find_edge(t, t.position[c], pos)].temperature

\* update_temperature: one neighbour's term of neighbor_temp_sum
NeighborTemperature(t, g, c, pos) ==
    LET edge == find_edge(t, t.position[c], pos)
    IN  IF edge = "None" THEN R(25) ELSE g.edges[edge].temperature

\* update_temperature: ambient_temperature
AmbientTemperature(t, g, c) ==
    LET ns == neighbours(t.position[c])
        neighbor_temp_sum ==
            FAdd(FAdd(FAdd(FAdd(Zero, NeighborTemperature(t, g, c, ns[1])),
                           NeighborTemperature(t, g, c, ns[2])),
                      NeighborTemperature(t, g, c, ns[3])),
                 NeighborTemperature(t, g, c, ns[4]))
    IN  FDiv(neighbor_temp_sum, R(4))

\* The temperature of the cell at position pos, the cell's own where the
\* index holds no cell there.
TemperatureAt(t, g, c, pos) ==
    IF cells_by_pos_get(t, pos) \in t.cells
    THEN g.cells[cells_by_pos_get(t, pos)].temperature
    ELSE g.cells[c].temperature

\* A temperature that would read the neighbouring cells' temperatures, which
\* update_temperature writes, in place of the edges'.
TemperatureFromCells(cfg, t, g, c) ==
    FDiv(FAdd(TemperatureAt(t, g, c, neighbours(t.position[c])[1]),
              TemperatureAt(t, g, c, neighbours(t.position[c])[2])), R(2))

\* A temperature update without the passive loss to the surroundings.
TemperatureWithoutPassiveLoss(cfg, t, g, c) ==
    FAdd(g.cells[c].temperature,
         FSub(FMul(g.cells[c].reactivity, cfg.heat_generation_factor),
              FMul(FMul(g.cells[c].coolant_level, cfg.coolant_efficiency),
                   FSub(g.cells[c].temperature, cfg.coolant_temperature))))

\* update_temperature, the value assigned
TemperatureOf(cfg, t, g, c) ==
    LET cell == g.cells[c]
        ambient_temperature == AmbientTemperature(t, g, c)
        heat_gain == FMul(cell.reactivity, cfg.heat_generation_factor)
        coolant_temp_diff == FSub(cell.temperature, cfg.coolant_temperature)
        heat_loss == FMul(FMul(cell.coolant_level, cfg.coolant_efficiency), coolant_temp_diff)
        ambient_temp_diff == FSub(cell.temperature, ambient_temperature)
        passive_heat_loss == FMul(ambient_temp_diff, cfg.temperature_passive_decay_rate)
    IN  FAdd(cell.temperature, FSub(FSub(heat_gain, heat_loss), passive_heat_loss))

\* generate_steam: boiling_point
BoilingPoint(cell) == FAdd(R(100), FMul(FSub(cell.pressure, One), R(3)))

\* generate_steam: the guard of the phase change
Boils(cell) == FGt(cell.temperature, BoilingPoint(cell)) /\ FGt(cell.coolant_level, Zero)

\* A phase change that would boil nothing.
NothingBoiled(cfg, cell) == Zero

\* generate_steam: coolant_boiled (0 when the phase change does not run)
CoolantBoiled(cfg, cell) ==
    IF BoilingPoint(cell) = OutOfRange THEN OutOfRange
    ELSE IF Boils(cell)
    THEN LET heat_excess == FSub(cell.temperature, BoilingPoint(cell))
             available_energy == FMul(heat_excess, cfg.energy_per_heat_unit)
             max_steam_from_energy == FDiv(available_energy, cfg.energy_required_per_unit)
         IN  FMin(max_steam_from_energy, cell.coolant_level)
    ELSE Zero

\* generate_steam: raw_pressure, from the levels after the phase change
RawPressure(cfg, coolant_level, steam_level, temperature) ==
    LET available_space == FMax(FSub(One, coolant_level), Q(1, 100))
        gas_amount == FMul(steam_level, cfg.steam_expansion_ratio)
        temp_kelvin == FMax(FAdd(temperature, Q(27315, 100)), Zero)
    IN  FDiv(FMul(gas_amount, temp_kelvin), available_space)

\* generate_steam: the value assigned to pressure
PressureOf(cfg, coolant_level, steam_level, temperature) ==
    LET raw_pressure == RawPressure(cfg, coolant_level, steam_level, temperature)
        curved_pressure == FPowf(raw_pressure, cfg.pressure_curve_exponent)
    IN  FAdd(cfg.nominal_pressure, FMul(curved_pressure, cfg.pressure_scale))

\* An output curve that falls with the pressure: nominal_pressure / pressure.
PotentialSteamOutputInverse(cfg, steam_pull_capacity, pressure) ==
    FMin(steam_pull_capacity,
         FMul(cfg.steam_pull_factor, FDiv(cfg.nominal_pressure, pressure)))

\* generate_steam: potential_steam_output
PotentialSteamOutput(cfg, steam_pull_capacity, pressure) ==
    FMin(steam_pull_capacity,
         FMul(cfg.steam_pull_factor, FDiv(pressure, cfg.nominal_pressure)))

\* A steam output that is not limited to the volume excess.
SteamOutputOfPull(coolant_level, steam_level, potential_steam_output) ==
    FMax(FMin(steam_level, potential_steam_output), Zero)

\* generate_steam: the value assigned to steam_output
SteamOutputOf(coolant_level, steam_level, potential_steam_output) ==
    LET volume_excess == FMax(FSub(FAdd(coolant_level, steam_level), One), Zero)
    IN  FMax(FMin(FMin(steam_level, volume_excess), potential_steam_output), Zero)

\* A refill that takes the whole coolant_flow, whatever space remains.
AddedCoolantUncapped(coolant_flow, coolant_level, steam_level) == coolant_flow

\* A refill that fills the space remaining, whatever the coolant_flow.
AddedCoolantToFull(coolant_flow, coolant_level, steam_level) ==
    FSub(One, FAdd(coolant_level, steam_level))

\* generate_steam: added_coolant
AddedCoolant(coolant_flow, coolant_level, steam_level) ==
    LET space_remaining == FSub(One, FAdd(coolant_level, steam_level))
    IN  FMin(coolant_flow, space_remaining)

\* generate_steam, the refill and the four assignments that end the loop
\* body; steam_level is the level after the venting.
Refill(cell, coolant_level, steam_level, pressure, steam_output) ==
    [cell EXCEPT !.steam_output = steam_output,
                 !.coolant_level =
                     FAdd(coolant_level,
                          AddedCoolant(cell.coolant_flow, coolant_level, steam_level)),
                 !.steam_level = steam_level,
                 !.pressure = pressure]

\* generate_steam, the venting: steam_level -= steam_output
Vent(cell, coolant_level, steam_level, pressure, steam_output) ==
    Refill(cell, coolant_level, FSub(steam_level, steam_output), pressure, steam_output)

\* generate_steam, from the potential output on
Pull(cfg, cell, coolant_level, steam_level, pressure) ==
    Vent(cell, coolant_level, steam_level, pressure,
         SteamOutputOf(coolant_level, steam_level,
                       PotentialSteamOutput(cfg, cell.steam_pull_capacity, pressure)))

\* generate_steam, from the pressure on; the levels are those the phase
\* change leaves.
Pressurize(cfg, cell, coolant_level, steam_level) ==
    Pull(cfg, cell, coolant_level, steam_level,
         PressureOf(cfg, coolant_level, steam_level, cell.temperature))

\* generate_steam, the phase change: coolant_boiled moves from the coolant
\* to the steam.
PhaseChange(cfg, cell, coolant_boiled) ==
    Pressurize(cfg, cell, FSub(cell.coolant_level, coolant_boiled),
               FAdd(cell.steam_level, coolant_boiled))

\* generate_steam, loop body: the cell after it
GenerateSteamOf(cfg, cell) == PhaseChange(cfg, cell, CoolantBoiled(cfg, cell))

----------------------------------------------------------------------------
(* The schedule.  plugin() registers five systems as a chain and           *)
(* update_edge_temperatures with the one constraint .before(               *)
(* update_temperature); the executor may start a system as soon as every   *)
(* system ordered before it has returned, and systems whose accesses do    *)
(* not conflict may run at the same time.  test_generates_steam builds an  *)
(* app whose Update schedule holds generate_steam alone.                   *)

VARIABLES
    app,      \* the schedule that runs: "RunSimulation" or, in the test, "Update"
    config,   \* Res<SimulationConfig>
    topo,     \* the name of the topology (constant during a run)
    cells,    \* cell entity -> its components
    edges,    \* edge entity -> its components
    running,  \* the systems that have started and not returned
    fin,      \* the systems that have returned Ok this tick
    visited,  \* system -> the entities its loop has been through this tick
    start,    \* the grid when the tick started
    failed,   \* the systems that have returned an error
    tick      \* the number of the tick

vars == <<app, config, topo, cells, edges, running, fin, visited, start, failed, tick>>

Chain ==
    <<"update_local_reactivity", "update_edge_reactivity", "update_total_reactivity",
      "update_temperature", "generate_steam">>

Systems == {Chain[i] : i \in 1..Len(Chain)} \cup {"update_edge_temperatures"}

\* The chain alone, without the constraint on update_edge_temperatures.
ChainOrdering == {<<Chain[i], Chain[i + 1]>> : i \in 1..(Len(Chain) - 1)}

\* The chain, with update_edge_temperatures after update_temperature.
OrderingTemperatureFirst ==
    ChainOrdering \cup {<<"update_temperature", "update_edge_temperatures">>}

\* The pairs <<s1, s2>> with s1 ordered before s2 by plugin().
Ordering ==
    {<<Chain[i], Chain[i + 1]>> : i \in 1..(Len(Chain) - 1)}
        \cup {<<"update_edge_temperatures", "update_temperature">>}

\* The systems of the schedule that runs.
Registered == IF app = "RunSimulation" THEN Systems ELSE {"generate_steam"}

\* The systems that must have returned before s starts.
MustPrecede(s) == {p \in Registered : <<p, s>> \in Ordering}

T == Topology(topo)
Grid == [cells |-> cells, edges |-> edges]

CellSystems ==
    {"update_local_reactivity", "update_total_reactivity", "update_temperature",
     "generate_steam"}
EdgeSystems == {"update_edge_reactivity", "update_edge_temperatures"}

\* The entities the query of system s iterates: the queries of the four
\* systems that resolve the core ask for the ChildOf component.
Matches(t, s) ==
    CASE s \in {"update_local_reactivity", "generate_steam"} -> t.cells
      [] s \in {"update_total_reactivity", "update_temperature"} ->
            {c \in t.cells : t.child_of[c] # "none"}
      [] s \in EdgeSystems -> {e \in t.edges : t.child_of[e] # "none"}

\* What the loop body of system s does on entity x: "update", "skip" or "err".
Outcome(t, s, x) ==
    CASE s \in {"update_local_reactivity", "generate_steam"} -> "update"
      [] s \in {"update_total_reactivity", "update_temperature"} ->
            IF ResolvesCore(t, x) THEN "update" ELSE "err"
      [] s \in EdgeSystems -> EdgeOutcome(t, x)

\* The grid after the loop body of each system has been through entity x,
\* read from grid g: g itself unless the outcome is "update".
LocalReactivityBody(cfg, g, x) ==
    [g EXCEPT !.cells[x].local_reactivity = LocalReactivityOf(cfg, g.cells[x])]

EdgeReactivityBody(t, g, x) ==
    IF EdgeOutcome(t, x) = "update"
    THEN [g EXCEPT !.edges[x].reactivity = EdgeReactivityOf(t, g, x)]
    ELSE g

TotalReactivityBody(cfg, t, g, x) ==
    IF ResolvesCore(t, x)
    THEN [g EXCEPT !.cells[x].reactivity = TotalReactivityOf(cfg, t, g, x)]
    ELSE g

EdgeTemperatureBody(t, g, x) ==
    IF EdgeOutcome(t, x) = "update"
    THEN [g EXCEPT !.edges[x].temperature = EdgeTemperatureOf(t, g, x)]
    ELSE g

TemperatureBody(cfg, t, g, x) ==
    IF ResolvesCore(t, x)
    THEN [g EXCEPT !.cells[x].temperature = TemperatureOf(cfg, t, g, x)]
    ELSE g

\* A loop body that uses the coolant flow up: it also writes coolant_flow.
GenerateSteamBodyDrainingFlow(cfg, g, x) ==
    [g EXCEPT !.cells[x] = [GenerateSteamOf(cfg, g.cells[x]) EXCEPT !.coolant_flow = Zero]]

GenerateSteamBody(cfg, g, x) ==
    [g EXCEPT !.cells[x] = GenerateSteamOf(cfg, g.cells[x])]

\* Whether every value of grid g is a fraction of the model.
InRange(g) ==
    /\ \A c \in DOMAIN g.cells : \A f \in DOMAIN g.cells[c] : g.cells[c][f] # OutOfRange
    /\ \A e \in DOMAIN g.edges : \A f \in DOMAIN g.edges[e] : g.edges[e][f] # OutOfRange

\* The executor starts system s.  Once a system has returned an error the
\* executor starts no other system; the systems that run go on.
StartSystem(s) ==
    /\ failed = {}
    /\ s \in Registered
    /\ s \notin running \cup fin
    /\ MustPrecede(s) \subseteq fin
    /\ running' = running \cup {s}
    /\ UNCHANGED <<app, config, topo, cells, edges, fin, visited, start, failed, tick>>

\* The entities the loop of system s has yet to go through.
Unvisited(s) == IF s \in running THEN Matches(T, s) \ visited[s] ELSE {}

\* One pass of the loop of system s, on entity x with outcome o, leaves grid
\* g.  An error returned by ? ends the system.
Visit(s, x, o, g) ==
    /\ InRange(g)
    /\ cells' = g.cells
    /\ edges' = g.edges
    /\ failed' = IF o = "err" THEN failed \cup {s} ELSE failed
    /\ visited' = IF o = "err" THEN visited ELSE [visited EXCEPT ![s] = @ \cup {x}]
    /\ running' = IF o = "err" THEN running \ {s} ELSE running
    /\ UNCHANGED <<app, config, topo, fin, start, tick>>

update_local_reactivity ==
    \E x \in Unvisited("update_local_reactivity") :
        Visit("update_local_reactivity", x, "update", LocalReactivityBody(config, Grid, x))

update_edge_reactivity ==
    \E x \in Unvisited("update_edge_reactivity") :
        Visit("update_edge_reactivity", x, EdgeOutcome(T, x), EdgeReactivityBody(T, Grid, x))

update_total_reactivity ==
    \E x \in Unvisited("update_total_reactivity") :
        Visit("update_total_reactivity", x, Outcome(T, "update_total_reactivity", x),
              TotalReactivityBody(config, T, Grid, x))

update_edge_temperatures ==
    \E x \in Unvisited("update_edge_temperatures") :
        Visit("update_edge_temperatures", x, EdgeOutcome(T, x),
              EdgeTemperatureBody(T, Grid, x))

update_temperature ==
    \E x \in Unvisited("update_temperature") :
        Visit("update_temperature", x, Outcome(T, "update_temperature", x),
              TemperatureBody(config, T, Grid, x))

generate_steam ==
    \E x \in Unvisited("generate_steam") :
        Visit("generate_steam", x, "update", GenerateSteamBody(config, Grid, x))

\* The loop of system s is over: the system returns (Ok, where it returns a Result).
SystemReturns(s) ==
    /\ s \in running
    /\ visited[s] = Matches(T, s)
    /\ running' = running \ {s}
    /\ fin' = fin \cup {s}
    /\ UNCHANGED <<app, config, topo, cells, edges, visited, start, failed, tick>>

\* Every system has returned: the host runs the schedule again.
NextTick ==
    /\ failed = {}
    /\ fin = Registered
    /\ tick < MaxTicks
    /\ tick' = tick + 1
    /\ fin' = {}
    /\ visited' = [s \in Systems |-> {}]
    /\ start' = Grid
    /\ UNCHANGED <<app, config, topo, cells, edges, running, failed>>

----------------------------------------------------------------------------
(* The states a run starts from *)

Cell(rod, coolant, steam, temperature, pressure, flow, pull) ==
    [control_rod |-> rod, coolant_level |-> coolant, local_reactivity |-> Zero,
     reactivity |-> Zero, temperature |-> temperature, steam_level |-> steam,
     steam_output |-> Zero, pressure |-> pressure, coolant_flow |-> flow,
     steam_pull_capacity |-> pull]

\* Every component at its default.
CellDefault == Cell(Zero, Zero, Zero, Zero, Zero, Zero, Zero)

\* The cells of the one-cell grid: cells as spawned (rod withdrawn, pressure
\* 0) and shut-down cells at pressure 1, cold or hot, empty to overfull.
SingleCells ==
    {Cell(rp[1], coolant, steam, temperature, rp[2], flow, pull) :
        rp \in {<<Zero, Zero>>, <<One, One>>}, coolant \in {Zero, Q(1, 2), One},
        steam \in {Zero, Q(1, 2)}, temperature \in {Zero, R(150)},
        flow \in {Zero, Q(1, 2)}, pull \in {Zero, One}}

\* The cells of the grids of several cells: a shut-down cell full of coolant
\* and the boiling cell of the specification's scenario.
GridCells ==
    {Cell(One, One, Zero, R(25), One, Zero, Zero),
     Cell(Zero, Q(1, 2), Zero, R(150), One, Zero, One)}

\* The values an edge holds before the first tick.
EdgeValues ==
    {[reactivity |-> Zero, temperature |-> Zero],
     [reactivity |-> R(7), temperature |-> R(50)]}

InitCommon ==
    /\ running = {}
    /\ fin = {}
    /\ visited = [s \in Systems |-> {}]
    /\ start = Grid
    /\ failed = {}
    /\ tick = 1

Init ==
    /\ app = "RunSimulation"
    /\ config \in Configs
    /\ topo \in {"single"} \cup GridTopologies
    /\ cells \in [T.cells -> IF topo = "single" THEN SingleCells ELSE GridCells]
    /\ \E v \in EdgeValues : edges = [e \in T.edges |-> v]
    /\ InitCommon

Next ==
    \/ \E s \in Systems : StartSystem(s)
    \/ update_local_reactivity
    \/ update_edge_reactivity
    \/ update_total_reactivity
    \/ update_edge_temperatures
    \/ update_temperature
    \/ generate_steam
    \/ \E s \in Systems : SystemReturns(s)
    \/ NextTick

Spec == Init /\ [][Next]_vars

----------------------------------------------------------------------------
(* test_generates_steam: an app whose Update schedule holds generate_steam *)
(* alone, one cell with every component at its default and no ChildOf, the *)
(* default SimulationConfig, and one app.update().  The defaults are not   *)
(* in computation.rs: the cell's are 0 and the run is taken from every     *)
(* configuration of TestConfigs and every pull capacity of TestPulls.      *)

TestConfigs ==
    {[cfg EXCEPT !.steam_pull_factor = f, !.nominal_pressure = n] :
        cfg \in Configs, f \in {Zero, Q(1, 2), One}, n \in {Zero, One, R(2)}}

TestPulls == {Zero, Q(1, 2), One}

TestInit ==
    /\ app = "Update"
    /\ config \in TestConfigs
    /\ topo = "test"
    /\ \E pull \in TestPulls :
          cells = [c \in T.cells |-> [CellDefault EXCEPT !.steam_pull_capacity = pull]]
    /\ edges = [e \in T.edges |-> [reactivity |-> Zero, temperature |-> Zero]]
    /\ InitCommon

TestNext ==
    \/ \E s \in Systems : StartSystem(s)
    \/ generate_steam
    \/ \E s \in Systems : SystemReturns(s)

TestSpec == TestInit /\ [][TestNext]_vars

----------------------------------------------------------------------------
(* The idle core: one isolated cell with its control rod fully inserted    *)
(* and no coolant flow, run tick after tick under configurations that      *)
(* differ in the coolant temperature and the two heat-loss rates.          *)

IdleConfigs ==
    {[ConfigNominal EXCEPT !.coolant_temperature = tc, !.coolant_efficiency = eff,
                           !.temperature_passive_decay_rate = decay] :
        tc \in {R(25), R(5)}, eff \in {Zero, Q(4, 25)}, decay \in {Zero, Q(8, 25)}}

IdleCells ==
    {Cell(One, coolant, Zero, temperature, One, Zero, Zero) :
        coolant \in {Zero, Q(1, 2), One}, temperature \in {Zero, R(5), R(25), R(150)}}

IdleInit ==
    /\ app = "RunSimulation"
    /\ config \in IdleConfigs
    /\ topo = "single"
    /\ cells \in [T.cells -> IdleCells]
    /\ edges = [e \in T.edges |-> [reactivity |-> Zero, temperature |-> Zero]]
    /\ InitCommon

\* The grid has no edge: the two edge systems start and return at once.
IdleNext ==
    \/ \E s \in Systems : StartSystem(s)
    \/ update_local_reactivity
    \/ update_total_reactivity
    \/ update_temperature
    \/ generate_steam
    \/ \E s \in Systems : SystemReturns(s)
    \/ NextTick

IdleSpec == IdleInit /\ [][IdleNext]_vars

----------------------------------------------------------------------------
(* The output curve: generate_steam alone on one cell, under every pull    *)
(* factor and nominal pressure of TestConfigs, the cell holding steam or   *)
(* not so that the pressure it reaches differs from run to run.            *)

PullCells ==
    {Cell(Zero, coolant, steam, Zero, One, Zero, pull) :
        coolant \in {Zero, Q(1, 2)}, steam \in {Zero, Q(1, 4), Q(1, 2)},
        pull \in TestPulls \cup {R(3)}}

\* The pressures the curve is compared at.
Pressures == {Zero, Q(1, 2), One, R(2), R(5), R(300), Inf}

PullInit ==
    /\ app = "Update"
    /\ config \in TestConfigs
    /\ topo = "test"
    /\ cells \in [T.cells -> PullCells]
    /\ edges = [e \in T.edges |-> [reactivity |-> Zero, temperature |-> Zero]]
    /\ InitCommon

PullNext ==
    \/ \E s \in Systems : StartSystem(s)
    \/ generate_steam
    \/ \E s \in Systems : SystemReturns(s)

PullSpec == PullInit /\ [][PullNext]_vars

----------------------------------------------------------------------------
(* Definitions the properties share *)

\* coolant_level + steam_level
Volume(cell) == FAdd(cell.coolant_level, cell.steam_level)

\* Cell c as generate_steam found it this tick, for a cell the system has
\* been through: generate_steam alone writes the four components restored.
PreSteam(c) ==
    [cells[c] EXCEPT !.coolant_level = start.cells[c].coolant_level,
                     !.steam_level = start.cells[c].steam_level,
                     !.pressure = start.cells[c].pressure,
                     !.steam_output = start.cells[c].steam_output]

\* System s has begun this tick.
Started(s) == s \in running \cup fin \cup failed \/ visited[s] # {}

\* The loop body of system s on entity x.
Body(cfg, t, g, s, x) ==
    CASE s = "update_local_reactivity" -> LocalReactivityBody(cfg, g, x)
      [] s = "update_edge_reactivity" -> EdgeReactivityBody(t, g, x)
      [] s = "update_total_reactivity" -> TotalReactivityBody(cfg, t, g, x)
      [] s = "update_edge_temperatures" -> EdgeTemperatureBody(t, g, x)
      [] s = "update_temperature" -> TemperatureBody(cfg, t, g, x)
      [] s = "generate_steam" -> GenerateSteamBody(cfg, g, x)

\* The whole loop of system s as one transform of grid g: every entity the
\* query matches is updated from g itself.
Stage(cfg, t, g, s) ==
    [cells |-> [c \in DOMAIN g.cells |->
                    IF s \in CellSystems /\ c \in Matches(t, s)
                    THEN Body(cfg, t, g, s, c).cells[c] ELSE g.cells[c]],
     edges |-> [e \in DOMAIN g.edges |->
                    IF s \in EdgeSystems /\ e \in Matches(t, s)
                    THEN Body(cfg, t, g, s, e).edges[e] ELSE g.edges[e]]]

\* The six stages in the order of the specification's section 4.
Canon ==
    <<"update_local_reactivity", "update_edge_reactivity", "update_total_reactivity",
      "update_edge_temperatures", "update_temperature", "generate_steam">>

\* One tick as the sequential pass through the six stages.
FullTick(cfg, t, g) ==
    Stage(cfg, t,
      Stage(cfg, t,
        Stage(cfg, t,
          Stage(cfg, t,
            Stage(cfg, t,
              Stage(cfg, t, g, Canon[1]),
              Canon[2]),
            Canon[3]),
          Canon[4]),
        Canon[5]),
      Canon[6])

\* The entity's ChildOf names an entity that is not a core.
Stale(x) == T.child_of[x] = "stale"

\* The systems that resolve the core of the entities they visit.
CoreResolving ==
    {"update_edge_reactivity", "update_total_reactivity", "update_edge_temperatures",
     "update_temperature"}

\* Edge e of a core names an endpoint position the index does not hold.
Dangling(t, e) ==
    /\ t.child_of[e] = "core"
    /\ \E i \in 1..2 : t.nodes[e][i] \notin DOMAIN t.cells_by_pos

\* Edge e of a core has both endpoints in the index, and they are cells.
Sound(t, e) ==
    /\ t.child_of[e] = "core"
    /\ \A i \in 1..2 :
          /\ t.nodes[e][i] \in DOMAIN t.cells_by_pos
          /\ t.cells_by_pos[t.nodes[e][i]] \in t.cells

\* The edges that join cell c to one of its four neighbour positions.
Incident(t, c) ==
    {e \in t.edges :
        \E i \in 1..4 :
            {t.nodes[e][1], t.nodes[e][2]} = {t.position[c], neighbours(t.position[c])[i]}}

\* The sum of a component over a set of edges.
RECURSIVE SumEdges(_, _, _)
SumEdges(g, S, field) ==
    IF S = {} THEN Zero
    ELSE LET e == CHOOSE x \in S : TRUE
         IN  FAdd(g.edges[e][field], SumEdges(g, S \ {e}, field))

\* The temperature sum of section 4.5: the incident edges' temperatures and
\* 25 for each of the other directions.
NeighborTempSum(t, g, c) ==
    FAdd(SumEdges(g, Incident(t, c), "temperature"),
         R(25 * (4 - Cardinality(Incident(t, c)))))

\* Section 4.5's new temperature of a cell for a given ambient temperature.
ExpectedTemperature(cfg, cell, ambient) ==
    FSub(FSub(FAdd(cell.temperature, FMul(cell.reactivity, cfg.heat_generation_factor)),
              FMul(FMul(cell.coolant_level, cfg.coolant_efficiency),
                   FSub(cell.temperature, cfg.coolant_temperature))),
         FMul(FSub(cell.temperature, ambient), cfg.temperature_passive_decay_rate))

----------------------------------------------------------------------------
(* Properties *)

\* C1.  Volume bound: once generate_steam has been through a cell (its
\* refill done), and from then on over the following ticks, the cell's
\* coolant_level + steam_level is at most 1, whatever the cell started from.
C1_VolumeBound ==
    \A c \in T.cells :
        (tick > 1 \/ c \in visited["generate_steam"]) => FLe(Volume(cells[c]), One)

\* C1, its case: a cell that started the tick overfull and with a positive
\* coolant_flow has been refilled.
C1_OverfullCellRefilled ==
    \E c \in T.cells :
        /\ c \in visited["generate_steam"]
        /\ FGt(Volume(start.cells[c]), One)
        /\ FGt(cells[c].coolant_flow, Zero)

\* The pairs <<p, q>> of systems that plugin() orders, directly or through
\* the chain: p has returned before q starts.
Before ==
    {pq \in Systems \X Systems :
        \E i, j \in 1..Len(Chain) : i < j /\ pq = <<Chain[i], Chain[j]>>}
    \cup {<<"update_edge_temperatures", "update_temperature">>,
          <<"update_edge_temperatures", "generate_steam">>}

\* C2, as stated.  The six stages are one fully ordered pass: a stage has
\* begun only if every stage before it in the order of section 4 has returned.
C2_SixStagePass ==
    \A i, j \in 1..Len(Canon) : (i < j /\ Started(Canon[j])) => Canon[i] \in fin

\* C2, amended.  The five chained systems run in the order of the chain and
\* update_edge_temperatures returns before update_temperature starts: a
\* system has begun only if every system ordered before it has returned,
\* having been through every entity of its query.
C2_RegisteredOrder ==
    \A pq \in Before :
        Started(pq[2]) => (pq[1] \in fin /\ visited[pq[1]] = Matches(T, pq[1]))

\* C2, its case: update_edge_temperatures is through an edge while
\* update_local_reactivity, the first system of the chain, has not returned.
C2_EdgeTemperatureOverlapsChain ==
    /\ visited["update_edge_temperatures"] # {}
    /\ "update_local_reactivity" \notin fin

\* C3.  Wherever the executor places update_edge_temperatures among the
\* three reactivity systems, the edge temperatures it leaves are those of the
\* sequential pass, and so is the whole grid when the tick is over.
C3_EdgeTemperaturePlacement ==
    /\ fin = Registered => Grid = FullTick(config, T, start)
    /\ "update_edge_temperatures" \in fin =>
          \A e \in T.edges :
              edges[e].temperature = FullTick(config, T, start).edges[e].temperature

\* C3, its case: update_edge_temperatures has returned, having changed an
\* edge, before update_local_reactivity has begun.
C3_EdgeTemperatureFirst ==
    /\ "update_edge_temperatures" \in fin
    /\ ~Started("update_local_reactivity")
    /\ \E e \in T.edges : edges[e].temperature # start.edges[e].temperature

\* C4.  Within a system the order of the visits does not matter: for any two
\* entities the loop has yet to go through, the grid after both loop bodies
\* is the same whichever goes first.
C4_SiblingOrder ==
    \A s \in running :
        \A x, y \in Unvisited(s) :
            (x # y /\ Outcome(T, s, x) # "err" /\ Outcome(T, s, y) # "err") =>
                Body(config, T, Body(config, T, Grid, s, x), s, y)
                    = Body(config, T, Body(config, T, Grid, s, y), s, x)

\* C4, its case: update_temperature is in its loop on a grid of three cells,
\* through one of them, with the two others (neighbours of it or of each
\* other) to go.
C4_TemperatureLoopUnderWay ==
    /\ "update_temperature" \in running
    /\ visited["update_temperature"] # {}
    /\ Cardinality(Unvisited("update_temperature")) >= 2

\* C5.  A dangling edge keeps its values; the two edge systems return no
\* error unless some other edge makes them; and once they have returned every
\* sound edge holds the mean of its two cells.
C5_DanglingEdgeSkipped ==
    \A e \in T.edges :
        Dangling(T, e) =>
            /\ edges[e] = start.edges[e]
            /\ (\A f \in T.edges : Dangling(T, f) \/ Sound(T, f)) =>
                    failed \cap EdgeSystems = {}
            /\ "update_edge_reactivity" \in fin =>
                    \A f \in T.edges :
                        Sound(T, f) => edges[f].reactivity = EdgeReactivityOf(T, Grid, f)
            /\ "update_edge_temperatures" \in fin =>
                    \A f \in T.edges :
                        Sound(T, f) => edges[f].temperature = EdgeTemperatureOf(T, start, f)

\* C5, its case: beside a dangling edge, both edge systems have returned and
\* a sound edge has new values.
C5_DanglingEdgePassed ==
    \E e, f \in T.edges :
        /\ Dangling(T, e)
        /\ Sound(T, f)
        /\ EdgeSystems \subseteq fin
        /\ edges[f].reactivity # start.edges[f].reactivity
        /\ edges[f].temperature # start.edges[f].temperature

\* The entity cannot resolve its owning core: its ChildOf names an entity
\* that is not a core, or it has no ChildOf.
Orphan(x) == T.child_of[x] # "core"

\* C6.  When an entity cannot resolve its owning core the tick fails at once:
\* the orphaned entity is updated by no system, and the tick does not run to
\* its end as a valid one.
C6_OrphanFailsTick ==
    /\ \A x \in T.cells : Orphan(x) => cells[x] = start.cells[x]
    /\ \A x \in T.edges : Orphan(x) => edges[x] = start.edges[x]
    /\ (\E x \in T.cells \cup T.edges : Orphan(x)) => fin # Registered

\* What the systems do guarantee about an orphan.  Only a core-resolving
\* system returns an error, on a visit it does not complete; an entity whose
\* ChildOf names no core is written by update_local_reactivity alone (its
\* local_reactivity); and the tick of a grid with such an entity never
\* reaches update_temperature or generate_steam, nor its end.
C6_OrphanFailsResolvingSystem ==
    /\ \A s \in failed :
          /\ s \in CoreResolving
          /\ s \notin running \cup fin
          /\ \E x \in Matches(T, s) \ visited[s] : Outcome(T, s, x) = "err"
    /\ \A x \in T.cells :
          Stale(x) =>
              [cells[x] EXCEPT !.local_reactivity = start.cells[x].local_reactivity]
                  = start.cells[x]
    /\ \A x \in T.edges : Stale(x) => edges[x] = start.edges[x]
    /\ (\E x \in T.cells \cup T.edges : Stale(x)) =>
          ~Started("update_temperature") /\ ~Started("generate_steam")
    /\ failed # {} => fin # Registered

\* A system has returned the error of an orphaned cell whose
\* local_reactivity update_local_reactivity has changed.
C6_OrphanCellFailure ==
    \E x \in T.cells :
        /\ Stale(x)
        /\ "update_total_reactivity" \in failed
        /\ cells[x].local_reactivity # start.cells[x].local_reactivity

\* coolant_flow, steam_pull_capacity and reactivity of cell c are 0.
ZeroInput(c) ==
    /\ cells[c].coolant_flow = Zero
    /\ cells[c].steam_pull_capacity = Zero
    /\ cells[c].reactivity = Zero

\* The levels of cell c are those the tick started with.
LevelsUnchanged(c) ==
    /\ cells[c].coolant_level = start.cells[c].coolant_level
    /\ cells[c].steam_level = start.cells[c].steam_level

\* C7, as stated.  A tick leaves the levels of a zero-input cell unchanged,
\* whatever its temperature, pressure and levels.
C7_ZeroInputKeepsLevels ==
    \A c \in visited["generate_steam"] : ZeroInput(c) => LevelsUnchanged(c)

\* C7, amended.  A tick leaves the levels of a zero-input cell unchanged when
\* the cell is not above its boiling point with coolant to boil and its
\* volume is at most 1.
C7_ZeroInputBelowBoiling ==
    \A c \in visited["generate_steam"] :
        (ZeroInput(c) /\ ~Boils(PreSteam(c)) /\ FLe(Volume(start.cells[c]), One))
            => LevelsUnchanged(c)

\* C7, its case: generate_steam has been through a zero-input cell that
\* holds coolant and steam, is not boiling and is not overfull.
C7_ZeroInputCellPassed ==
    \E c \in visited["generate_steam"] :
        /\ ZeroInput(c)
        /\ ~Boils(PreSteam(c))
        /\ FLe(Volume(start.cells[c]), One)
        /\ FGt(start.cells[c].coolant_level, Zero)
        /\ FGt(start.cells[c].steam_level, Zero)

\* C8.  test_generates_steam: after the one run of generate_steam on the
\* default cell, steam_output > 0.
C8_TestGeneratesSteam ==
    (app = "Update" /\ "generate_steam" \in fin) =>
        \A c \in T.cells : FGt(cells[c].steam_output, Zero)

\* The energy, expansion and pressure-scale constants are positive.
PositiveConstants(cfg) ==
    /\ FGt(cfg.energy_per_heat_unit, Zero)
    /\ FGt(cfg.energy_required_per_unit, Zero)
    /\ FGt(cfg.steam_expansion_ratio, Zero)
    /\ FGt(cfg.pressure_scale, Zero)

\* Cell c entered generate_steam above its boiling point, with coolant, not
\* overfull and with no coolant flow.
BoilingScenario(c) ==
    /\ PositiveConstants(config)
    /\ Boils(PreSteam(c))
    /\ FLe(Volume(PreSteam(c)), One)
    /\ cells[c].coolant_flow = Zero

\* C9.  Boiling scenario: generate_steam leaves such a cell with less
\* coolant, more steam and a pressure above nominal_pressure.
C9_BoilingScenario ==
    \A c \in visited["generate_steam"] :
        BoilingScenario(c) =>
            /\ FLt(cells[c].coolant_level, start.cells[c].coolant_level)
            /\ FGt(cells[c].steam_level, start.cells[c].steam_level)
            /\ FGt(cells[c].pressure, config.nominal_pressure)

\* C9, its case: the cell of the example (temperature 150, pressure 1,
\* coolant_level 0.5, steam_pull_capacity 1) has been through generate_steam.
C9_ExampleCellBoiled ==
    \E c \in visited["generate_steam"] :
        /\ BoilingScenario(c)
        /\ start.cells[c].temperature = R(150)
        /\ start.cells[c].pressure = One
        /\ start.cells[c].coolant_level = Q(1, 2)
        /\ cells[c].steam_pull_capacity = One

\* C10.  Neighbour fallback: the reactivity update_total_reactivity assigns
\* is local_reactivity plus the coupling factor times the sum of the incident
\* edges' reactivities (local_reactivity itself for a cell with no incident
\* edge), and the temperature update_temperature assigns is that of an
\* ambient temperature of a quarter of the incident edges' temperatures plus
\* 25 for each missing direction (25 for a cell with no incident edge).
C10_NeighborFallback ==
    /\ \A c \in visited["update_total_reactivity"] :
          /\ cells[c].reactivity =
                FAdd(cells[c].local_reactivity,
                     FMul(SumEdges(Grid, Incident(T, c), "reactivity"),
                          config.reactivity_neighbor_coupling_factor))
          /\ Incident(T, c) = {} => cells[c].reactivity = cells[c].local_reactivity
    /\ \A c \in visited["update_temperature"] \ visited["generate_steam"] :
          /\ cells[c].temperature =
                ExpectedTemperature(config,
                    [cells[c] EXCEPT !.temperature = start.cells[c].temperature],
                    FDiv(NeighborTempSum(T, Grid, c), R(4)))
          /\ Incident(T, c) = {} =>
                cells[c].temperature =
                    ExpectedTemperature(config,
                        [cells[c] EXCEPT !.temperature = start.cells[c].temperature],
                        R(25))

\* C10, its case: a cell with no incident edge, away from 25 degrees and with
\* a passive decay, has been through update_total_reactivity and
\* update_temperature.
C10_IsolatedCellUpdated ==
    \E c \in visited["update_total_reactivity"] \cap visited["update_temperature"] :
        /\ Incident(T, c) = {}
        /\ c \notin visited["generate_steam"]
        /\ start.cells[c].temperature # R(25)
        /\ config.temperature_passive_decay_rate # Zero
        /\ cells[c].local_reactivity # Zero

\* The cell at endpoint i of edge e.
Endpoint(t, e, i) == cells_by_pos_get(t, t.nodes[e][i])

\* Topology t with the two stored endpoints of edge e swapped.
SwapNodes(t, e) == [t EXCEPT !.nodes[e] = <<@[2], @[1]>>]

\* C11.  Reactivity symmetry: the reactivity update_edge_reactivity assigns
\* to an edge with both endpoints present is the mean of the two cells'
\* local_reactivity, the same with the stored endpoints swapped; find_edge
\* resolves the two positions to that edge in either order, and the two
\* endpoint cells add the same term in update_total_reactivity.
C11_ReactivitySymmetry ==
    \A e \in visited["update_edge_reactivity"] :
        Sound(T, e) =>
            /\ edges[e].reactivity =
                  FDiv(FAdd(cells[Endpoint(T, e, 1)].local_reactivity,
                            cells[Endpoint(T, e, 2)].local_reactivity), R(2))
            /\ edges[e].reactivity =
                  FDiv(FAdd(cells[Endpoint(T, e, 2)].local_reactivity,
                            cells[Endpoint(T, e, 1)].local_reactivity), R(2))
            /\ edges[e].reactivity = EdgeReactivityOf(SwapNodes(T, e), Grid, e)
            /\ find_edge(T, T.nodes[e][1], T.nodes[e][2]) = e
            /\ find_edge(T, T.nodes[e][2], T.nodes[e][1]) = e
            /\ NeighborReactivity(T, Grid, Endpoint(T, e, 1), T.nodes[e][2])
                  = edges[e].reactivity
            /\ NeighborReactivity(T, Grid, Endpoint(T, e, 2), T.nodes[e][1])
                  = edges[e].reactivity

\* C11, its case: update_edge_reactivity has been through an edge whose two
\* cells differ in local_reactivity, and update_total_reactivity through both
\* cells.
C11_UnequalEndpointsAveraged ==
    \E e \in visited["update_edge_reactivity"] :
        /\ Sound(T, e)
        /\ cells[Endpoint(T, e, 1)].local_reactivity
              # cells[Endpoint(T, e, 2)].local_reactivity
        /\ {Endpoint(T, e, 1), Endpoint(T, e, 2)} \subseteq visited["update_total_reactivity"]

\* |a|
FAbs(a) == IF a[1] < 0 THEN FNeg(a) ELSE a

\* |a - b|
Distance(a, b) == FAbs(FSub(a, b))

\* Cell c is idle: isolated, control rod fully inserted, no coolant flow.
Idle(c) ==
    /\ Incident(T, c) = {}
    /\ cells[c].control_rod = One
    /\ cells[c].coolant_flow = Zero

\* The share of its distance to the coolant temperature and to 25 degrees
\* that an idle cell loses in a tick.
LossRate(c) ==
    FAdd(FMul(cells[c].coolant_level, config.coolant_efficiency),
         config.temperature_passive_decay_rate)

\* The cells update_temperature has been through and generate_steam has not:
\* coolant_level is the one update_temperature read.
TemperatureUpdated == visited["update_temperature"] \ visited["generate_steam"]

\* C12, as stated.  Idle stability: from any starting temperature the
\* temperature of an idle cell converges to coolant_temperature.  The update
\* is linear in the temperature, so it converges from every start exactly
\* when every tick brings a temperature that is not coolant_temperature
\* strictly closer to it and leaves one that is there.
C12_IdleConvergesToCoolant ==
    \A c \in TemperatureUpdated :
        Idle(c) =>
            /\ start.cells[c].temperature = config.coolant_temperature =>
                  cells[c].temperature = config.coolant_temperature
            /\ start.cells[c].temperature # config.coolant_temperature =>
                  FLt(Distance(cells[c].temperature, config.coolant_temperature),
                      Distance(start.cells[c].temperature, config.coolant_temperature))

\* C12, amended.  An idle cell has local_reactivity 0 and reactivity 0 from
\* the first tick on, and a tick takes its temperature T to
\*   T - coolant_level * coolant_efficiency * (T - coolant_temperature)
\*     - temperature_passive_decay_rate * (T - 25).
\* With coolant_temperature = 25 and a loss rate strictly between 0 and 2
\* every tick brings it strictly closer to coolant_temperature; with a loss
\* rate of 0 it never moves; with coolant_temperature other than 25 and a
\* passive decay it leaves coolant_temperature when it is there.
C12_IdleTemperatureUpdate ==
    \A c \in TemperatureUpdated :
        Idle(c) =>
            /\ cells[c].local_reactivity = Zero
            /\ cells[c].reactivity = Zero
            /\ cells[c].temperature =
                  FSub(FSub(start.cells[c].temperature,
                            FMul(FMul(cells[c].coolant_level, config.coolant_efficiency),
                                 FSub(start.cells[c].temperature,
                                      config.coolant_temperature))),
                       FMul(config.temperature_passive_decay_rate,
                            FSub(start.cells[c].temperature, R(25))))
            /\ (/\ config.coolant_temperature = R(25)
                /\ FGt(LossRate(c), Zero)
                /\ FLt(LossRate(c), R(2))
                /\ start.cells[c].temperature # R(25)) =>
                  FLt(Distance(cells[c].temperature, R(25)),
                      Distance(start.cells[c].temperature, R(25)))
            /\ LossRate(c) = Zero => cells[c].temperature = start.cells[c].temperature
            /\ (/\ config.coolant_temperature # R(25)
                /\ FGt(config.temperature_passive_decay_rate, Zero)
                /\ start.cells[c].temperature = config.coolant_temperature) =>
                  cells[c].temperature # config.coolant_temperature

\* C12, its case: in its second tick an idle cell that started the tick away
\* from a coolant temperature of 25 has been through update_temperature with
\* a positive loss rate.
C12_IdleCellCooling ==
    \E c \in TemperatureUpdated :
        /\ Idle(c)
        /\ tick = 2
        /\ config.coolant_temperature = R(25)
        /\ FGt(LossRate(c), Zero)
        /\ start.cells[c].temperature # R(25)

\* generate_steam: the levels the phase change leaves in a cell.
BoiledCoolantLevel(cfg, cell) == FSub(cell.coolant_level, CoolantBoiled(cfg, cell))
BoiledSteamLevel(cfg, cell) == FAdd(cell.steam_level, CoolantBoiled(cfg, cell))

\* generate_steam: available_space
AvailableSpace(coolant_level) == FMax(FSub(One, coolant_level), Q(1, 100))

\* generate_steam: the divisors that are 0 when the loop body runs on a cell.
\* The division by energy_required_per_unit is inside the phase change.
ZeroDivisors(cfg, cell) ==
    (IF Boils(cell) /\ cfg.energy_required_per_unit = Zero
     THEN {"energy_required_per_unit"} ELSE {})
    \cup (IF AvailableSpace(BoiledCoolantLevel(cfg, cell)) = Zero
          THEN {"available_space"} ELSE {})
    \cup (IF cfg.nominal_pressure = Zero THEN {"nominal_pressure"} ELSE {})

\* generate_steam: raw_pressure, the base of powf, is negative.
NegativeBase(cfg, cell) ==
    FLt(RawPressure(cfg, BoiledCoolantLevel(cfg, cell), BoiledSteamLevel(cfg, cell),
                    cell.temperature), Zero)

\* C13.  No numerical fault in the steam stage: generate_steam never divides
\* by zero and never raises a negative base to pressure_curve_exponent.
C13_NoNumericalFault ==
    \A c \in visited["generate_steam"] :
        /\ ZeroDivisors(config, PreSteam(c)) = {}
        /\ ~NegativeBase(config, PreSteam(c))

\* What the floors do guarantee: available_space is at least 0.01, so that
\* division is never by zero, and with non-negative levels and constants the
\* base of powf is not negative.
C13_FloorsHold ==
    \A c \in visited["generate_steam"] :
        /\ FGe(AvailableSpace(BoiledCoolantLevel(config, PreSteam(c))), Q(1, 100))
        /\ "available_space" \notin ZeroDivisors(config, PreSteam(c))
        /\ ~NegativeBase(config, PreSteam(c))

\* generate_steam: potential_steam_output of cell c at pressure p
PotentialAt(c, p) == PotentialSteamOutput(config, cells[c].steam_pull_capacity, p)

\* C14.  Monotonic output curve: with the pull capacity, the pull factor
\* and the nominal pressure held fixed, the potential output never decreases
\* when the pressure increases and never exceeds the pull capacity.  The
\* pressures compared are those of Pressures and the one generate_steam
\* assigned to the cell; the output it stored is within the potential one.
C14_MonotonicOutputCurve ==
    \A c \in visited["generate_steam"] :
        /\ FLe(cells[c].steam_output, PotentialAt(c, cells[c].pressure))
        /\ \A p, q \in Pressures \cup {cells[c].pressure} :
              /\ FLe(PotentialAt(c, p), cells[c].steam_pull_capacity)
              /\ FLe(p, q) => FLe(PotentialAt(c, p), PotentialAt(c, q))

\* C14, its case: generate_steam has left a cell at a pressure where the
\* potential output is below the pull capacity, and a higher pressure gives
\* a strictly higher potential output.
C14_OutputRisesBelowCapacity ==
    \E c \in visited["generate_steam"] :
        /\ FLt(PotentialAt(c, cells[c].pressure), cells[c].steam_pull_capacity)
        /\ FGt(cells[c].pressure, config.nominal_pressure)
        /\ \E q \in Pressures :
              /\ FLt(cells[c].pressure, q)
              /\ FLt(PotentialAt(c, cells[c].pressure), PotentialAt(c, q))

\* The components each system holds mutably in its query.
WriteSet(s) ==
    CASE s = "update_local_reactivity" -> {"local_reactivity"}
      [] s = "update_edge_reactivity" -> {"reactivity"}
      [] s = "update_total_reactivity" -> {"reactivity"}
      [] s = "update_edge_temperatures" -> {"temperature"}
      [] s = "update_temperature" -> {"temperature"}
      [] s = "generate_steam" ->
            {"steam_output", "coolant_level", "steam_level", "pressure"}

\* The control inputs of a cell.
ControlInputs == {"control_rod", "coolant_flow", "steam_pull_capacity"}

\* Between grids g and h nothing differs but components fields of entity x.
OnlyWrote(g, h, x, fields) ==
    /\ \A c \in DOMAIN g.cells :
          \A f \in DOMAIN g.cells[c] :
              h.cells[c][f] # g.cells[c][f] => c = x /\ f \in fields
    /\ \A e \in DOMAIN g.edges :
          \A f \in DOMAIN g.edges[e] :
              h.edges[e][f] # g.edges[e][f] => e = x /\ f \in fields

\* C15.  Write-set locality: a step of a system's loop changes nothing but
\* that system's target components of the entity it is on (a cell for the
\* cell systems, an edge for the edge systems); no step changes a control
\* input, the configuration or the position index, and a step that is not a
\* pass of a loop changes no cell and no edge.
C15_WriteSetLocality ==
    [][/\ config' = config
       /\ topo' = topo
       /\ \A c \in DOMAIN cells : \A f \in ControlInputs : cells'[c][f] = cells[c][f]
       /\ \A s \in Systems :
             visited'[s] \ visited[s] # {} =>
                \E x \in visited'[s] \ visited[s] :
                    /\ visited'[s] = visited[s] \cup {x}
                    /\ x \in (IF s \in CellSystems THEN T.cells ELSE T.edges)
                    /\ OnlyWrote(Grid, [cells |-> cells', edges |-> edges'], x, WriteSet(s))
       /\ (\A s \in Systems : visited'[s] \subseteq visited[s]) =>
             cells' = cells /\ edges' = edges]_vars

\* C15, its case: in a grid of several cells and edges every system has been
\* through an entity, and cells and edges differ from those the tick found.
C15_EverySystemWrote ==
    /\ \A s \in Systems : visited[s] # {}
    /\ Cardinality(T.cells) > 1
    /\ \E c \in T.cells :
          /\ cells[c].local_reactivity # start.cells[c].local_reactivity
          /\ cells[c].reactivity # start.cells[c].reactivity
          /\ cells[c].temperature # start.cells[c].temperature
          /\ cells[c].steam_level # start.cells[c].steam_level
    /\ \E e \in T.edges :
          /\ edges[e].reactivity # start.edges[e].reactivity
          /\ edges[e].temperature # start.edges[e].temperature

\* The levels and the two inputs of generate_steam are not negative.
NonNegativeLevels(cell) ==
    /\ FGe(cell.coolant_level, Zero)
    /\ FGe(cell.steam_level, Zero)
    /\ FGe(cell.coolant_flow, Zero)
    /\ FGe(cell.steam_pull_capacity, Zero)

\* generate_steam: what the refill added to cell c, the coolant level it
\* left less the level the phase change left.
RefillAdded(c) ==
    FSub(cells[c].coolant_level, BoiledCoolantLevel(config, PreSteam(c)))

\* The steam stage of cell c left the steam level and the steam output
\* within their bounds: the output is between 0 and the steam level held
\* just before the extraction.
SteamWithinBounds(c) ==
    /\ FGe(cells[c].steam_level, Zero)
    /\ FGe(cells[c].steam_output, Zero)
    /\ FLe(cells[c].steam_output, BoiledSteamLevel(config, PreSteam(c)))

\* C16.  Level bounds: a cell that generate_steam found with non-negative
\* levels, coolant flow and pull capacity leaves it with coolant_level >= 0,
\* steam_level >= 0 and 0 <= steam_output <= the steam level held just
\* before the extraction, and the refill removed no coolant.
C16_LevelBounds ==
    \A c \in visited["generate_steam"] :
        NonNegativeLevels(PreSteam(c)) =>
            /\ FGe(cells[c].coolant_level, Zero)
            /\ SteamWithinBounds(c)
            /\ FGe(RefillAdded(c), Zero)

\* What does hold: the steam bounds for every such cell, and the coolant
\* bounds for the cells found within the unit volume.
C16_BoundsWithinUnitVolume ==
    \A c \in visited["generate_steam"] :
        NonNegativeLevels(PreSteam(c)) =>
            /\ SteamWithinBounds(c)
            /\ FLe(Volume(PreSteam(c)), One) =>
                  /\ FGe(cells[c].coolant_level, Zero)
                  /\ FGe(RefillAdded(c), Zero)

\* The refill took coolant out of a cell found with non-negative levels,
\* and left its coolant level below 0.
C16_RefillLeftNegativeCoolant ==
    \E c \in visited["generate_steam"] :
        /\ NonNegativeLevels(PreSteam(c))
        /\ FLt(RefillAdded(c), Zero)
        /\ FLt(cells[c].coolant_level, Zero)

\* Every registered system has returned: the tick is over.
TickOver == fin = Registered /\ failed = {}

\* The grid the tick started from, with value v in edge e.
StartWith(e, v) == [start EXCEPT !.edges[e] = v]

\* The values an edge may hold when a tick starts.
EdgeStates ==
    EdgeValues \cup {[reactivity |-> R(3), temperature |-> R(100)],
                     [reactivity |-> R(-1), temperature |-> R(-40)]}

\* C17.  Edges hold no state across ticks: when a tick is over the grid is
\* the one the six stages give from the grid the tick started from, and for
\* every edge with both endpoints in the index a tick started from the same
\* grid with any other values in that edge ends with the same edge values
\* and the same cells.
C17_EdgesHoldNoState ==
    TickOver =>
        /\ Grid = FullTick(config, T, start)
        /\ \A e \in T.edges :
              Sound(T, e) =>
                 \A v \in EdgeStates : FullTick(config, T, StartWith(e, v)) = Grid

\* C17, its case: a tick is over on a grid with an edge whose endpoints are
\* in the index, which started the tick with values other than those it
\* ends with, next to a cell with a reactivity that is not 0.
C17_EdgeOverwritten ==
    /\ TickOver
    /\ \E e \in T.edges :
          /\ Sound(T, e)
          /\ start.edges[e].reactivity # edges[e].reactivity
          /\ start.edges[e].temperature # edges[e].temperature
          /\ start.edges[e].reactivity # Zero
          /\ \E c \in T.cells : e \in Incident(T, c) /\ cells[c].reactivity # Zero

\* The mean of a component over the two endpoint cells of edge e, in grid g.
EndpointMean(g, e, field) ==
    FDiv(FAdd(g.cells[Endpoint(T, e, 1)][field], g.cells[Endpoint(T, e, 2)][field]),
         R(2))

\* C18.  Edge values are the averages of the endpoint cells: when a tick is
\* over, every edge with both endpoints in the index holds in temperature
\* the mean of its two cells' temperature and in reactivity the mean of
\* their local_reactivity, as the cells then are.
C18_EdgeValuesAreAverages ==
    TickOver =>
        \A e \in T.edges :
            Sound(T, e) =>
                /\ edges[e].temperature = EndpointMean(Grid, e, "temperature")
                /\ edges[e].reactivity = EndpointMean(Grid, e, "local_reactivity")

\* C18 as the code has it: when a tick is over the edge's reactivity is the
\* mean of its two cells' local_reactivity, and its temperature is the mean
\* of the temperatures the two cells had when the tick started, before
\* update_temperature moved them.
C18_EdgeTemperatureOfTickStart ==
    TickOver =>
        \A e \in T.edges :
            Sound(T, e) =>
                /\ edges[e].temperature = EndpointMean(start, e, "temperature")
                /\ edges[e].reactivity = EndpointMean(Grid, e, "local_reactivity")

\* C18, its case: a tick is over in which update_temperature has moved the
\* mean temperature of the two cells of an edge.
C18_EndpointTemperaturesMoved ==
    /\ TickOver
    /\ \E e \in T.edges :
          /\ Sound(T, e)
          /\ EndpointMean(Grid, e, "temperature") # EndpointMean(start, e, "temperature")
          /\ edges[e].temperature # start.edges[e].temperature

\* Cell c and the cells its edges join it to.
OneHop(t, c) ==
    {c} \cup {d \in t.cells :
                \E e \in Incident(t, c) : \E i \in 1..2 : cells_by_pos_get(t, t.nodes[e][i]) = d}

\* The first three stages: the grid when update_total_reactivity returns.
ThroughTotalReactivity(cfg, t, g) ==
    Stage(cfg, t, Stage(cfg, t, Stage(cfg, t, g, Canon[1]), Canon[2]), Canon[3])

\* The grid the tick started from with cell d replaced.
StartWithCell(d, cell) == [start EXCEPT !.cells[d] = cell]

\* The grid the tick started from with v in every reactivity of the tick
\* before: the cells' local_reactivity and reactivity and the edges'.
StartWithReactivities(v) ==
    [cells |-> [x \in DOMAIN start.cells |->
                    [start.cells[x] EXCEPT !.local_reactivity = v, !.reactivity = v]],
     edges |-> [e \in DOMAIN start.edges |-> [start.edges[e] EXCEPT !.reactivity = v]]]

\* The cells a cell two or more hops away may be instead.
FarCells == GridCells \cup {CellDefault, Cell(Q(1, 2), Zero, One, R(300), R(2), One, One)}

\* C19.  One-hop coupling: once update_total_reactivity has been through a
\* cell, its reactivity is its local_reactivity plus the coupling factor
\* times the sum of the reactivities of its incident edges; when those edges
\* have both endpoints in the index each is the mean of this tick's
\* local_reactivity of its two cells, and the cell's reactivity is the same
\* whatever a cell two or more hops away holds and whatever reactivities the
\* tick before left in the cells and the edges.
C19_OneHopCoupling ==
    \A c \in visited["update_total_reactivity"] :
        /\ cells[c].reactivity =
              FAdd(cells[c].local_reactivity,
                   FMul(SumEdges(Grid, Incident(T, c), "reactivity"),
                        config.reactivity_neighbor_coupling_factor))
        /\ Cardinality(Incident(T, c)) <= 4
        /\ (\A e \in Incident(T, c) : Sound(T, e)) =>
              /\ \A e \in Incident(T, c) :
                    edges[e].reactivity = EndpointMean(Grid, e, "local_reactivity")
              /\ \A d \in OneHop(T, c) :
                    cells[d].local_reactivity = LocalReactivityOf(config, start.cells[d])
              /\ cells[c].reactivity =
                    ThroughTotalReactivity(config, T, start).cells[c].reactivity
              /\ \A d \in T.cells \ OneHop(T, c) :
                    \A cell \in FarCells :
                        ThroughTotalReactivity(config, T, StartWithCell(d, cell)).cells[c].reactivity
                            = cells[c].reactivity
              /\ \A v \in {R(7), R(-3)} :
                    ThroughTotalReactivity(config, T, StartWithReactivities(v)).cells[c].reactivity
                        = cells[c].reactivity

\* C19, its case: update_total_reactivity has been through a cell of the
\* line that has a neighbour and a cell two hops away, the three differing
\* in local_reactivity, in a tick that started with reactivities left by the
\* tick before.
C19_CoupledCellWithFarCell ==
    \E c \in visited["update_total_reactivity"] :
        /\ tick = 2
        /\ Incident(T, c) # {}
        /\ \A e \in Incident(T, c) : Sound(T, e)
        /\ T.cells \ OneHop(T, c) # {}
        /\ cells[c].reactivity # cells[c].local_reactivity
        /\ cells[c].reactivity # start.cells[c].reactivity
        /\ \E d \in T.cells \ OneHop(T, c) :
              cells[d].local_reactivity # cells[c].local_reactivity

\* generate_steam: volume_excess of a cell, from the levels the phase change
\* leaves.
VolumeExcess(cfg, cell) ==
    FMax(FSub(FAdd(BoiledCoolantLevel(cfg, cell), BoiledSteamLevel(cfg, cell)), One),
         Zero)

====
